---- MODULE Spec2Model ----
(***************************************************************************)
(* The two front ends of the finder: seeker.py (configuration dashboard,   *)
(* one search) and yoink.py (looping search with live toggles).            *)
(*                                                                         *)
(* Text is modelled as a sequence of tokens.  A token is one character     *)
(* ("a", "/", ":", " ", "'", ".", the line break "\n") or, on the first    *)
(* line the selector prints, the whole name of the pressed key             *)
(* ("ctrl-v"): a key name holds no blank, no ':' and no line break, so     *)
(* strip(), splitlines(), split(':') and == treat it as they would treat   *)
(* its characters.  In the source command handed to the shell the fixed    *)
(* words ("rg", "--files") are tokens of this kind too.                    *)
(***************************************************************************)
EXTENDS Integers, Sequences, FiniteSets, TLC

(* ------------------------------ bounds -------------------------------- *)

\* Longest selection line enumerated exhaustively over SelAlphabet.
MaxSelLen == 2

\* Most selector launches followed in one run of the looping variant.
MaxRuns == 3

(* ------------------------- strings (Python str) ----------------------- *)

NL == "\n"

\* None, as returned by run_fzf on interrupt and by parse_selection.
None == <<"<None>">>

\* Python truthiness of a str-or-None value.
Truthy(x) == x # None /\ x # <<>>

Whitespace == {" ", NL}

RECURSIVE LStrip(_)
LStrip(s) ==
    IF s = <<>> THEN <<>>
    ELSE IF Head(s) \in Whitespace THEN LStrip(Tail(s))
    ELSE s

RECURSIVE RStrip(_)
RStrip(s) ==
    IF s = <<>> THEN <<>>
    ELSE IF s[Len(s)] \in Whitespace THEN RStrip(SubSeq(s, 1, Len(s) - 1))
    ELSE s

\* str.strip()
Strip(s) == RStrip(LStrip(s))

\* str.split(d): the pieces between the occurrences of d, empty ones kept.
RECURSIVE Split(_, _)
Split(s, d) ==
    IF \A i \in 1..Len(s) : s[i] # d THEN <<s>>
    ELSE LET i == CHOOSE k \in 1..Len(s) :
                      s[k] = d /\ \A j \in 1..(k - 1) : s[j] # d
         IN  <<SubSeq(s, 1, i - 1)>> \o Split(SubSeq(s, i + 1, Len(s)), d)

\* str.splitlines(): as split on the line break, but an empty text has no
\* line and a final line break opens no further line.
SplitLines(s) ==
    LET parts == Split(s, NL)
    IN  IF parts[Len(parts)] = <<>> THEN SubSeq(parts, 1, Len(parts) - 1)
        ELSE parts

\* str.rfind(c) + 1: the position just after the last c, 0 when none.
AfterLast(s, c) ==
    IF \E i \in 1..Len(s) : s[i] = c
    THEN CHOOSE i \in 1..Len(s) : s[i] = c /\ \A j \in (i + 1)..Len(s) : s[j] # c
    ELSE 0

RECURSIVE RStripChar(_, _)
RStripChar(s, c) ==
    IF s # <<>> /\ s[Len(s)] = c THEN RStripChar(SubSeq(s, 1, Len(s) - 1), c)
    ELSE s

RECURSIVE Join(_, _)
Join(parts, d) ==
    IF parts = <<>> THEN <<>>
    ELSE IF Len(parts) = 1 THEN parts[1]
    ELSE parts[1] \o <<d>> \o Join(Tail(parts), d)

\* The pieces of a sequence of strings that are not empty, in order.
RECURSIVE NonEmpty(_)
NonEmpty(parts) ==
    IF parts = <<>> THEN <<>>
    ELSE IF parts[1] = <<>> THEN NonEmpty(Tail(parts))
    ELSE <<parts[1]>> \o NonEmpty(Tail(parts))

(* ----------------------------- os.path -------------------------------- *)

\* The working directory the process runs in (os.getcwd()).
Cwd == <<"/", "w">>

\* os.path.normpath for paths without '.' and '..' components: runs of
\* slashes collapse, a trailing slash goes, exactly two leading slashes stay.
NormPath(p) ==
    LET lead  == IF p # <<>> /\ p[1] = "/"
                 THEN IF Len(p) >= 2 /\ p[2] = "/" /\ ~(Len(p) >= 3 /\ p[3] = "/")
                      THEN <<"/", "/">> ELSE <<"/">>
                 ELSE <<>>
        body  == Join(NonEmpty(Split(p, "/")), "/")
        whole == lead \o body
    IN  IF whole = <<>> THEN <<".">> ELSE whole

\* os.path.abspath: a relative path is joined to the working directory.
AbsPath(p) ==
    IF p # <<>> /\ p[1] = "/" THEN NormPath(p)
    ELSE NormPath(Cwd \o <<"/">> \o p)

\* os.path.dirname: everything before the last slash, trailing slashes of
\* that head removed unless it consists of slashes only.
DirName(p) ==
    LET head == SubSeq(p, 1, AfterLast(p, "/"))
    IN  IF head # <<>> /\ \E i \in 1..Len(head) : head[i] # "/"
        THEN RStripChar(head, "/") ELSE head

(* --------------------------- configuration ---------------------------- *)

Variants == {"seeker", "yoink"}

BINARY_DEPENDENCIES == <<"fzf", "rg", "bat">>

\* Every binary the dependency check may look up in PATH.
Binaries == {"fzf", "rg", "bat", "batcat"}

\* SearchConfig.__init__ of each front end.
SearchConfig(v) ==
    [mode           |-> "filename",
     case_sensitive |-> FALSE,
     hidden_files   |-> (v = "seeker"),
     editor         |-> IF v = "seeker" THEN "vim" ELSE "cd",
     initial_query  |-> <<>>]

\* The values the dashboard's editor Select offers.
DashboardEditors == {"vim", "vscode", "folder", "print"}

\* What shutil.which finds of the required tools in a PATH holding the
\* binaries installed: the tools it does not find, bat being found also
\* where only batcat is installed.
Absent_Tools(installed) ==
    ({"fzf", "rg"} \ installed)
        \cup (IF installed \cap {"bat", "batcat"} = {} THEN {"bat"} ELSE {})

\* Mutant of Missing: the check stops at the first missing tool.
Missing_FirstOnly(installed) ==
    LET all == SelectSeq(BINARY_DEPENDENCIES,
                         LAMBDA dep : dep \notin installed
                                      /\ ~(dep = "bat" /\ "batcat" \in installed))
    IN  IF all = <<>> THEN <<>> ELSE <<all[1]>>

\* check_dependencies: the list of missing tools, batcat standing in for bat.
Missing(installed) ==
    SelectSeq(BINARY_DEPENDENCIES,
              LAMBDA dep : dep \notin installed
                           /\ ~(dep = "bat" /\ "batcat" \in installed))

\* The keys each front end's selector is told to report (fzf --expect).
ExpectKeys(v) ==
    IF v = "yoink"
    THEN {<<"ctrl-v">>, <<"ctrl-x">>, <<"ctrl-o">>, <<"ctrl-t">>,
          <<"ctrl-f">>, <<"ctrl-g">>, <<"ctrl-s">>, <<"ctrl-h">>}
    ELSE {<<"ctrl-v">>, <<"ctrl-x">>, <<"ctrl-o">>}

(* ------------------------ what the operator types --------------------- *)

\* Texts typed at the query prompt or into the dashboard's query input.
Queries == {<<>>, <<"a">>, <<"'">>}

\* Keys the selector may report on its first output line; "" is plain Enter
\* and "f1" stands for a key outside every expect set.
Keys == {"", "ctrl-v", "ctrl-x", "ctrl-t", "ctrl-o",
         "ctrl-f", "ctrl-g", "ctrl-s", "ctrl-h", "f1"}

KeyLine(k) == IF k = "" THEN <<>> ELSE <<k>>

SelAlphabet == {"a", "/", ":"}

StringsUpTo(A, n) == UNION {[1..k -> A] : k \in 0..n}

\* Selection lines beyond the exhaustive ones: blanks, a content match
\* "path:line:text", a line whose second field is no number, nested and
\* absolute paths.
ExtraSelections ==
    {<<" ">>, <<" ", "a">>, <<"a", " ">>,
     <<"a", ":", "1", ":", "a">>, <<"a", ":", "a">>,
     <<"a", "/", "a">>, <<"/", "a", "/", "a">>}

Selections == StringsUpTo(SelAlphabet, MaxSelLen) \cup ExtraSelections

\* What the selector writes to its standard output: nothing, a key line,
\* or a key line and the selected line.
RawOutputs ==
    {<<>>}
    \cup {KeyLine(k) \o <<NL>> : k \in Keys}
    \cup {KeyLine(k) \o <<NL>> \o s \o <<NL>> : k \in Keys, s \in Selections}

Platforms == {"Windows", "Darwin", "Linux"}

(* ------------------------------- state -------------------------------- *)

VARIABLES
    variant,        \* which front end runs
    pc,             \* where the process is: start, dashboard, prompt,
                    \* run_fzf, reaping, returned, editor, exited
    config,         \* the SearchConfig
    missing,        \* tools check_dependencies reported
    handoff,        \* ~/.yoink_last_path: Absent or its content
    cleanup,        \* what the cleanup before the loop did with the file:
                    \* "none" (not run, or no file), "removed", "failed"
    fzf_stdout,     \* what the selector of the current pipeline wrote
    output,         \* run_fzf's first return value
    is_content,     \* run_fzf's second return value
    key_pressed,    \* main's key_pressed, once a result was split
    selection_text, \* main's selection_text
    dispatches,     \* the open_file calls made: editor, filepath, line_number
    printed,        \* lines written to standard output by the print action
    launched,       \* the external command open_file started
    warnings,       \* errors reported to the operator
    exitCode,       \* the process's exit status, NoExit while it runs
    launches,       \* number of calls of run_fzf
    writes,         \* number of writes to the handoff file
    prev,           \* the selector result handled just before, when it was
                    \* a toggle key, with the configuration it found
    interrupted,    \* the place an operator interrupt arrived at, or "no"
    uncaught,       \* an exception left main uncaught (traceback, status 1)
    source_proc,    \* the source process (rg under a shell) of the latest
                    \* pipeline: none, running, blocked (in a write to
                    \* the full pipe), exited (not waited for), reaped
                    \* (waited for)
    fzf_proc,       \* the selector process of the latest pipeline
    read_ends,      \* who holds the read end of the pipe the source writes
                    \* to: "parent" (source_proc.stdout), "fzf" (its stdin)
    absent_tools    \* the required tools shutil.which did not find when
                    \* the dependency check ran, bat found as batcat counting
                    \* as found

vars == <<variant, pc, config, missing, handoff, cleanup, fzf_stdout,
          output, is_content, key_pressed, selection_text, dispatches,
          printed, launched, warnings, exitCode, launches, writes, prev,
          interrupted, uncaught, source_proc, fzf_proc, read_ends,
          absent_tools>>

Absent == <<"<absent>">>

\* Content a previous run may have left in the handoff file.
Stale == <<"/", "s">>

NoExit == -1

NoCmd == [cmd |-> "", args |-> <<>>]

NoPrev == [key |-> <<>>, before |-> SearchConfig("yoink")]

Init ==
    /\ variant \in Variants
    /\ pc = "start"
    /\ config = SearchConfig(variant)
    /\ missing = <<>>
    /\ handoff \in (IF variant = "yoink" THEN {Absent, Stale} ELSE {Absent})
    /\ cleanup = "none"
    /\ fzf_stdout = None
    /\ output = None
    /\ is_content = FALSE
    /\ key_pressed = None
    /\ selection_text = None
    /\ dispatches = <<>>
    /\ printed = <<>>
    /\ launched = NoCmd
    /\ warnings = <<>>
    /\ exitCode = NoExit
    /\ launches = 0
    /\ writes = 0
    /\ prev = NoPrev
    /\ interrupted = "no"
    /\ uncaught = FALSE
    /\ source_proc = "none"
    /\ fzf_proc = "none"
    /\ read_ends = {}
    /\ absent_tools = {}

(* ----------------------------- helpers -------------------------------- *)

\* sys.exit(code), and the end of main (status 0).
Exit(code) == pc' = "exited" /\ exitCode' = code

\* run_fzf down to its first blocking call: Popen starts the source command
\* under a shell, and subprocess.run starts the selector and waits for it.
StartPipeline ==
    /\ pc' = "run_fzf"
    /\ launches' = launches + 1
    /\ source_proc' = "running"
    /\ fzf_proc' = "running"
    /\ read_ends' = {"parent", "fzf"}

\* Mutant of LoopTop: the loop calls run_fzf without asking for a query.
LoopTop_SkipsPrompt(cfg) == StartPipeline

\* The top of yoink's loop down to its next blocking call: the query prompt
\* when content mode has no query, else run_fzf.
LoopTop(cfg) ==
    IF cfg.mode = "content" /\ ~Truthy(cfg.initial_query)
    THEN /\ pc' = "prompt"
         /\ launches' = launches
         /\ UNCHANGED <<source_proc, fzf_proc, read_ends>>
    ELSE StartPipeline

\* Mutant of parse_selection: the selection is split at ':' in filename mode
\* too.
parse_selection_IgnoresMode(raw_selection, is_content_search) ==
    IF ~Truthy(raw_selection) THEN [filepath |-> None, line_num |-> None]
    ELSE LET parts == Split(raw_selection, ":")
         IN  IF Len(parts) >= 2
             THEN [filepath |-> parts[1], line_num |-> parts[2]]
             ELSE [filepath |-> Strip(raw_selection), line_num |-> None]

\* parse_selection: the path and the line number of a selected line.
parse_selection(raw_selection, is_content_search) ==
    IF ~Truthy(raw_selection) THEN [filepath |-> None, line_num |-> None]
    ELSE LET parts == Split(raw_selection, ":")
         IN  IF is_content_search /\ Len(parts) >= 2
             THEN [filepath |-> parts[1], line_num |-> parts[2]]
             ELSE [filepath |-> Strip(raw_selection), line_num |-> None]

\* f"{filepath}:{line_number}" if line_number else filepath
PathLine(filepath, line_number) ==
    IF Truthy(line_number) THEN filepath \o <<":">> \o line_number
    ELSE filepath

\* The argument list of each external command open_file starts.
VimArgs(filepath, line_number) ==
    IF Truthy(line_number) THEN << <<"+">> \o line_number, filepath >>
    ELSE <<filepath>>

FolderCmd(platform) ==
    IF platform = "Windows" THEN "os.startfile"
    ELSE IF platform = "Darwin" THEN "open"
    ELSE "xdg-open"

\* The command line of an editor or folder dispatch.
CommandFor(filepath, line_number, editor, platform) ==
    IF editor = "folder"
    THEN [cmd |-> FolderCmd(platform), args |-> <<DirName(AbsPath(filepath))>>]
    ELSE IF editor = "vscode"
    THEN [cmd |-> "code", args |-> << <<"-g">>, PathLine(filepath, line_number) >>]
    ELSE IF editor = "sublime"
    THEN [cmd |-> "subl", args |-> <<PathLine(filepath, line_number)>>]
    ELSE [cmd |-> "$EDITOR or vim", args |-> VimArgs(filepath, line_number)]

\* Mutant of WriteHandoff: the file is opened for appending.
WriteHandoff_Appends(old, folder_path, outcome) ==
    IF outcome = "ok"
    THEN IF old = Absent THEN folder_path ELSE old \o folder_path
    ELSE IF outcome = "open_error" THEN old
    ELSE <<>>

\* What the change-directory action leaves in the handoff file: open(.., "w")
\* replaces the content; an error at open leaves the file as it was, an
\* error while writing leaves it truncated.
WriteHandoff(old, folder_path, outcome) ==
    IF outcome = "ok" THEN folder_path
    ELSE IF outcome = "open_error" THEN old
    ELSE <<>>

WriteOutcomes == {"ok", "open_error", "write_error"}

\* Mutant of RunCommand: the command is not started at all.
RunCommand_Skipped(command, present) ==
    /\ launched' = launched
    /\ Exit(0)
    /\ UNCHANGED warnings

\* An external command of open_file: it starts and main waits for it, or it
\* cannot be started and the error is reported.
RunCommand(command, present) ==
    /\ launched' = command
    /\ IF present
       THEN /\ pc' = "editor"
            /\ UNCHANGED <<exitCode, warnings>>
       ELSE /\ warnings' = Append(warnings, "command not found")
            /\ Exit(0)

\* The editors each front end's open_file knows.
ExternalEditors(v) ==
    IF v = "yoink" THEN {"folder", "vscode", "sublime", "vim"}
    ELSE {"folder", "vscode", "vim"}

\* open_file, and the end of main after it.  platform.system() is read by
\* the folder action only, so the other commands fix it.
open_file(filepath, line_number, editor) ==
    /\ dispatches' = Append(dispatches,
           [editor |-> editor, filepath |-> filepath, line_number |-> line_number])
    /\ IF editor = "print"
       THEN /\ printed' = Append(printed, PathLine(filepath, line_number))
            /\ Exit(0)
            /\ UNCHANGED <<handoff, writes, launched, warnings>>
       ELSE IF editor = "cd" /\ variant = "yoink"
       THEN \E outcome \in WriteOutcomes :
               /\ handoff' = WriteHandoff(handoff, DirName(AbsPath(filepath)), outcome)
               /\ writes' = IF outcome = "open_error" THEN writes ELSE writes + 1
               /\ warnings' = IF outcome = "ok" THEN warnings
                              ELSE Append(warnings, "error writing handoff file")
               /\ Exit(0)
               /\ UNCHANGED <<printed, launched>>
       ELSE IF editor \in ExternalEditors(variant)
       THEN \E platform \in Platforms, present \in BOOLEAN :
               /\ editor # "folder" => platform = "Linux"
               /\ RunCommand(CommandFor(filepath, line_number, editor, platform), present)
               /\ UNCHANGED <<printed, handoff, writes>>
       ELSE /\ Exit(0)
            /\ UNCHANGED <<printed, handoff, writes, launched, warnings>>

(* --------------------------- the source command ----------------------- *)

\* str.replace(c, by) for a one-character c.
RECURSIVE Replace(_, _, _)
Replace(s, c, by) ==
    IF s = <<>> THEN <<>>
    ELSE (IF Head(s) = c THEN by ELSE <<Head(s)>>) \o Replace(Tail(s), c, by)

\* run_fzf's source_cmd, the text handed to the shell.  Its fixed words are
\* single tokens; blanks, quotes and the query's characters are tokens of
\* their own.  yoink escapes the query's single quotes, seeker does not.
SourceCmd(v, cfg) ==
    LET hidden_flag == IF cfg.hidden_files THEN <<"--hidden">> ELSE <<>>
        case_flag   == IF cfg.case_sensitive THEN <<"--case-sensitive">>
                       ELSE <<"--smart-case">>
        given       == IF Truthy(cfg.initial_query) THEN cfg.initial_query
                       ELSE <<".">>
        query       == IF v = "yoink"
                       THEN Replace(given, "'", <<"'", "\\", "'", "'">>)
                       ELSE given
    IN  IF cfg.mode = "filename"
        THEN <<"rg", " ", "--files", " ">> \o hidden_flag
                 \o <<" ", "--glob", " ", "'", "!.git/*", "'">>
        ELSE <<"rg", " ", "--line-number", " ", "--no-heading", " ",
               "--color=always", " ">> \o hidden_flag \o <<" ">> \o case_flag
                 \o <<" ", "'">> \o query \o <<"'">>

\* Characters the shell takes as syntax where they stand unquoted.
ShellMeta == {";", "|", "&", "$", "(", ")", "<", ">"}

\* How the shell started by Popen(shell=True) reads a command text: a single
\* quote opens a literal stretch up to the next single quote, a backslash
\* outside quotes makes the next character literal, blanks outside quotes
\* separate words.  Gives the words, whether a quote is left open at the
\* end, and whether an unquoted character was taken as shell syntax.
RECURSIVE ShellLex(_, _, _, _, _, _)
ShellLex(s, quoted, cur, inWord, words, syntax) ==
    IF s = <<>>
    THEN [words     |-> IF inWord THEN Append(words, cur) ELSE words,
          unmatched |-> quoted,
          syntax    |-> syntax]
    ELSE LET c == Head(s)
         IN  IF quoted
             THEN IF c = "'" THEN ShellLex(Tail(s), FALSE, cur, TRUE, words, syntax)
                  ELSE ShellLex(Tail(s), TRUE, cur \o <<c>>, TRUE, words, syntax)
             ELSE IF c = "'" THEN ShellLex(Tail(s), TRUE, cur, TRUE, words, syntax)
             ELSE IF c = "\\"
             THEN IF Len(s) >= 2
                  THEN ShellLex(Tail(Tail(s)), FALSE, cur \o <<s[2]>>, TRUE,
                                words, syntax)
                  ELSE ShellLex(Tail(s), FALSE, cur, inWord, words, TRUE)
             ELSE IF c = " " \/ c \in ShellMeta
             THEN ShellLex(Tail(s), FALSE, <<>>, FALSE,
                           IF inWord THEN Append(words, cur) ELSE words,
                           syntax \/ c \in ShellMeta)
             ELSE ShellLex(Tail(s), FALSE, cur \o <<c>>, TRUE, words, syntax)

ShellWords(cmd) == ShellLex(cmd, FALSE, <<>>, FALSE, <<>>, FALSE)

(* ------------------------------ key routing --------------------------- *)

ToggleKeys == {<<"ctrl-f">>, <<"ctrl-g">>, <<"ctrl-s">>, <<"ctrl-h">>}

\* Mutant of ToggleConfig: a key that is no toggle flips the hidden flag.
ToggleConfig_AnyKeyFlipsHidden(cfg, key) ==
    IF key = <<"ctrl-f">> THEN [cfg EXCEPT !.mode = "filename"]
    ELSE IF key = <<"ctrl-g">>
    THEN [cfg EXCEPT !.mode = "content", !.initial_query = <<>>]
    ELSE IF key = <<"ctrl-s">>
    THEN [cfg EXCEPT !.case_sensitive = ~cfg.case_sensitive]
    ELSE [cfg EXCEPT !.hidden_files = ~cfg.hidden_files]

\* Mutant of ToggleConfig: switching to filename search also makes print the
\* default action.
ToggleConfig_FilesSetsPrint(cfg, key) ==
    IF key = <<"ctrl-f">> THEN [cfg EXCEPT !.mode = "filename", !.editor = "print"]
    ELSE IF key = <<"ctrl-g">>
    THEN [cfg EXCEPT !.mode = "content", !.initial_query = <<>>]
    ELSE IF key = <<"ctrl-s">>
    THEN [cfg EXCEPT !.case_sensitive = ~cfg.case_sensitive]
    ELSE IF key = <<"ctrl-h">>
    THEN [cfg EXCEPT !.hidden_files = ~cfg.hidden_files]
    ELSE cfg

\* Mutant of ToggleConfig: ctrl-f also empties the query, as ctrl-g does.
ToggleConfig_FilesClearsQuery(cfg, key) ==
    IF key = <<"ctrl-f">>
    THEN [cfg EXCEPT !.mode = "filename", !.initial_query = <<>>]
    ELSE IF key = <<"ctrl-g">>
    THEN [cfg EXCEPT !.mode = "content", !.initial_query = <<>>]
    ELSE IF key = <<"ctrl-s">>
    THEN [cfg EXCEPT !.case_sensitive = ~cfg.case_sensitive]
    ELSE IF key = <<"ctrl-h">>
    THEN [cfg EXCEPT !.hidden_files = ~cfg.hidden_files]
    ELSE cfg

\* Mutant of ToggleConfig: ctrl-s and ctrl-h switch their flag on instead of
\* flipping it.
ToggleConfig_SwitchesOn(cfg, key) ==
    IF key = <<"ctrl-f">> THEN [cfg EXCEPT !.mode = "filename"]
    ELSE IF key = <<"ctrl-g">>
    THEN [cfg EXCEPT !.mode = "content", !.initial_query = <<>>]
    ELSE IF key = <<"ctrl-s">> THEN [cfg EXCEPT !.case_sensitive = TRUE]
    ELSE IF key = <<"ctrl-h">> THEN [cfg EXCEPT !.hidden_files = TRUE]
    ELSE cfg

\* Mutant of ToggleConfig: ctrl-g switches the mode and keeps the old query.
ToggleConfig_KeepsQuery(cfg, key) ==
    IF key = <<"ctrl-f">> THEN [cfg EXCEPT !.mode = "filename"]
    ELSE IF key = <<"ctrl-g">> THEN [cfg EXCEPT !.mode = "content"]
    ELSE IF key = <<"ctrl-s">>
    THEN [cfg EXCEPT !.case_sensitive = ~cfg.case_sensitive]
    ELSE IF key = <<"ctrl-h">>
    THEN [cfg EXCEPT !.hidden_files = ~cfg.hidden_files]
    ELSE cfg

\* yoink's toggle branches: the configuration after a toggle key.
ToggleConfig(cfg, key) ==
    IF key = <<"ctrl-f">> THEN [cfg EXCEPT !.mode = "filename"]
    ELSE IF key = <<"ctrl-g">>
    THEN [cfg EXCEPT !.mode = "content", !.initial_query = <<>>]
    ELSE IF key = <<"ctrl-s">>
    THEN [cfg EXCEPT !.case_sensitive = ~cfg.case_sensitive]
    ELSE IF key = <<"ctrl-h">>
    THEN [cfg EXCEPT !.hidden_files = ~cfg.hidden_files]
    ELSE cfg

\* Mutant of YoinkAction: the pressed key is ignored.
YoinkAction_IgnoresKey(key, default) == default

\* The editor main passes to open_file for a pressed key.
YoinkAction(key, default) ==
    IF key = <<"ctrl-v">> THEN "vim"
    ELSE IF key = <<"ctrl-x">> THEN "vscode"
    ELSE IF key = <<"ctrl-t">> THEN "sublime"
    ELSE IF key = <<"ctrl-o">> THEN "folder"
    ELSE default

SeekerAction(key, default) ==
    IF key = <<"ctrl-v">> THEN "vim"
    ELSE IF key = <<"ctrl-x">> THEN "vscode"
    ELSE IF key = <<"ctrl-o">> THEN "folder"
    ELSE default

\* Mutant of ClearHandoff: the cleanup is left out.
ClearHandoff_Skipped(old, removable) == old

\* The cleanup before yoink's loop: the handoff file is removed if it exists;
\* an OSError of os.remove is swallowed and the file stays.
ClearHandoff(old, removable) ==
    IF old # Absent /\ removable THEN Absent ELSE old

\* Mutant of Cancelled: an output of fewer than two lines ends the run, as
\* in seeker.
Cancelled_KeyOnly(out) == ~Truthy(out) \/ Len(SplitLines(out)) < 2

\* yoink's main ends without looking at keys: run_fzf returned None or an
\* empty text, or the text has no line.
Cancelled(out) == ~Truthy(out) \/ SplitLines(out) = <<>>

\* Mutant of MainGuard: the interrupt ends the process with the status of
\* a process killed by SIGINT.
MainGuard_SignalStatus == Exit(130)

\* The module's handler of KeyboardInterrupt: sys.exit(0).
MainGuard == Exit(0)

\* What open_file may change besides pc and exitCode.
effects == <<dispatches, printed, handoff, writes, launched, warnings>>

(* ------------------------------- actions ------------------------------ *)

\* main up to its first blocking call: the dependency check, then the
\* dashboard (seeker) or the handoff-file cleanup and the loop's top (yoink).
Startup(installed, removable) ==
    /\ pc = "start"
    /\ absent_tools' = Absent_Tools(installed)
    /\ missing' = Missing(installed)
    /\ IF missing' # <<>>
       THEN /\ Exit(1)
            /\ UNCHANGED <<handoff, cleanup, launches, source_proc, fzf_proc, read_ends>>
       ELSE IF variant = "seeker"
       THEN /\ pc' = "dashboard"
            /\ UNCHANGED <<handoff, cleanup, launches, exitCode, source_proc,
                           fzf_proc, read_ends>>
       ELSE /\ handoff' = ClearHandoff(handoff, removable)
            /\ cleanup' = IF handoff = Absent THEN "none"
                          ELSE IF removable THEN "removed" ELSE "failed"
            /\ LoopTop(config)
            /\ UNCHANGED exitCode
    /\ UNCHANGED <<variant, config, fzf_stdout, output, is_content,
                   key_pressed, selection_text, dispatches, printed, launched,
                   warnings, writes, prev, interrupted, uncaught>>

\* SeekerTUI.action_submit, the app's exit and main's call of run_fzf.
DashboardSubmit(mode, case, hidden, editor, query) ==
    /\ variant = "seeker" /\ pc = "dashboard"
    /\ config' = [mode           |-> mode,
                  case_sensitive |-> case,
                  hidden_files   |-> hidden,
                  editor         |-> editor,
                  initial_query  |-> IF mode = "content" THEN query
                                     ELSE SearchConfig("seeker").initial_query]
    /\ StartPipeline
    /\ UNCHANGED <<variant, absent_tools, missing, handoff, cleanup,
                   fzf_stdout, output, is_content, key_pressed,
                   selection_text, dispatches, printed, launched, warnings,
                   exitCode, writes, prev, interrupted, uncaught>>

\* The dashboard is quit without submitting: app.run() returns None.
DashboardQuit ==
    /\ variant = "seeker" /\ pc = "dashboard"
    /\ Exit(0)
    /\ UNCHANGED <<variant, absent_tools, config, missing, handoff, cleanup,
                   fzf_stdout, output, is_content, key_pressed,
                   selection_text, dispatches, printed, launched, warnings,
                   launches, writes, prev, interrupted, uncaught, source_proc,
                   fzf_proc, read_ends>>

\* yoink's query prompt is answered; an empty answer becomes ".".
PromptAnswer(q) ==
    /\ variant = "yoink" /\ pc = "prompt"
    /\ config' = [config EXCEPT !.initial_query = IF Truthy(q) THEN q ELSE <<".">>]
    /\ StartPipeline
    /\ prev' = NoPrev
    /\ UNCHANGED <<variant, absent_tools, missing, handoff, cleanup,
                   fzf_stdout, output, is_content, key_pressed,
                   selection_text, dispatches, printed, launched, warnings,
                   exitCode, writes, interrupted, uncaught>>

\* Mutant of ReadEndsAfterSelector: run_fzf waits for the source without
\* closing source_proc.stdout first.
ReadEndsAfterSelector_KeptOpen(ends) == ends \ {"fzf"}

\* The holders of the pipe's read end once subprocess.run has returned and
\* source_proc.stdout.close() has run: the selector's copy went with the
\* selector, the parent's copy is closed.
ReadEndsAfterSelector(ends) == (ends \ {"fzf"}) \ {"parent"}

\* The selector ends and subprocess.run, which waited for it, returns what
\* it wrote; run_fzf closes its end of the pipe and waits for the source.
SelectorExits(raw) ==
    /\ pc = "run_fzf"
    /\ fzf_stdout' = raw
    /\ fzf_proc' = "reaped"
    /\ read_ends' = ReadEndsAfterSelector(read_ends)
    /\ pc' = "reaping"
    /\ UNCHANGED <<variant, absent_tools, config, missing, handoff, cleanup,
                   output, is_content, key_pressed, selection_text,
                   dispatches, printed, launched, warnings, exitCode,
                   launches, writes, prev, interrupted, uncaught,
                   source_proc>>

\* The source has ended, source_proc.wait() returns, and run_fzf returns
\* what the selector wrote; seeker strips it.
SourceReaped ==
    /\ pc = "reaping"
    /\ source_proc = "exited"
    /\ source_proc' = "reaped"
    /\ output' = IF variant = "seeker" THEN Strip(fzf_stdout) ELSE fzf_stdout
    /\ is_content' = (config.mode # "filename")
    /\ pc' = "returned"
    /\ UNCHANGED <<variant, absent_tools, config, missing, handoff, cleanup,
                   fzf_stdout, key_pressed, selection_text, dispatches,
                   printed, launched, warnings, exitCode, launches, writes,
                   prev, interrupted, uncaught, fzf_proc, read_ends>>

\* What an interrupted run_fzf leaves of the source process: its handler
\* returns without waiting for it, so the source is left as it is (it may
\* still run); it counts as waited for only where the interpreter collected
\* it (Popen.wait's grace period, or the poll made when the Popen object is
\* dropped).  The pipe's read ends go with the selector and the Popen object.
SourceAfterInterrupt(proc) == {proc, "reaped"}

\* An operator interrupt while run_fzf waits for the selector or for the
\* source: run_fzf returns None, False.  subprocess.run kills the selector
\* and waits for it before it lets the interrupt pass.
SelectorInterrupted ==
    /\ pc \in {"run_fzf", "reaping"}
    /\ fzf_stdout' = None
    /\ output' = None
    /\ is_content' = FALSE
    /\ pc' = "returned"
    /\ interrupted' = "run_fzf"
    /\ fzf_proc' = "reaped"
    /\ source_proc' \in SourceAfterInterrupt(source_proc)
    /\ read_ends' = {}
    /\ UNCHANGED <<variant, absent_tools, config, missing, handoff, cleanup,
                   key_pressed, selection_text, dispatches, printed, launched,
                   warnings, exitCode, launches, writes, prev, uncaught>>

\* The selector binary is gone when subprocess.run starts it: the
\* FileNotFoundError passes run_fzf's and the module's handlers, which catch
\* KeyboardInterrupt only, and the interpreter ends with status 1.  The
\* selector never ran; the source, started before it, is left behind.
SelectorLaunchFails ==
    /\ pc = "run_fzf"
    /\ uncaught' = TRUE
    /\ fzf_proc' = "none"
    /\ read_ends' = {}
    /\ Exit(1)
    /\ UNCHANGED <<variant, absent_tools, config, missing, handoff, cleanup,
                   fzf_stdout, output, is_content, key_pressed,
                   selection_text, dispatches, printed, launched, warnings,
                   launches, writes, prev, interrupted, source_proc>>

\* The source process, started by Popen(source_cmd, stdout=PIPE, shell=True),
\* runs beside the parent.  It blocks in a write when the pipe is full, which
\* takes a read end somebody holds without reading fast enough.
SourceBlocks ==
    /\ source_proc = "running"
    /\ read_ends # {}
    /\ source_proc' = "blocked"
    /\ UNCHANGED <<variant, absent_tools, pc, config, missing, handoff,
                   cleanup, fzf_stdout, output, is_content, key_pressed,
                   selection_text, dispatches, printed, launched, warnings,
                   exitCode, launches, writes, prev, interrupted, uncaught,
                   fzf_proc, read_ends>>

\* The selector reads from the pipe and the blocked source writes on.
SourceResumes ==
    /\ source_proc = "blocked"
    /\ "fzf" \in read_ends
    /\ source_proc' = "running"
    /\ UNCHANGED <<variant, absent_tools, pc, config, missing, handoff,
                   cleanup, fzf_stdout, output, is_content, key_pressed,
                   selection_text, dispatches, printed, launched, warnings,
                   exitCode, launches, writes, prev, interrupted, uncaught,
                   fzf_proc, read_ends>>

\* The source ends: it has written all it had, or its write fails because no
\* read end of the pipe is open any more (SIGPIPE), which also releases a
\* source blocked in a write.  It stays unreaped until it is waited for.
SourceEnds ==
    /\ \/ source_proc = "running"
       \/ source_proc = "blocked" /\ read_ends = {}
    /\ source_proc' = "exited"
    /\ UNCHANGED <<variant, absent_tools, pc, config, missing, handoff,
                   cleanup, fzf_stdout, output, is_content, key_pressed,
                   selection_text, dispatches, printed, launched, warnings,
                   exitCode, launches, writes, prev, interrupted, uncaught,
                   fzf_proc, read_ends>>

\* yoink's main from run_fzf's return to the next blocking call or the end.
\* A further turn of the loop starts a new pipeline, whose result is yet to
\* come: output and fzf_stdout are None until it returns.
YoinkHandleResult ==
    /\ variant = "yoink" /\ pc = "returned"
    /\ IF Cancelled(output)
       THEN /\ Exit(0)
            /\ UNCHANGED <<config, fzf_stdout, output, key_pressed,
                           selection_text, launches, prev, source_proc,
                           fzf_proc, read_ends>>
            /\ UNCHANGED effects
       ELSE LET lines == SplitLines(output)
                key   == lines[1]
                sel   == IF Len(lines) < 2 THEN None ELSE lines[2]
            IN  IF key \in ToggleKeys \/ ~Truthy(sel)
                THEN /\ launches < MaxRuns
                     /\ config' = ToggleConfig(config, key)
                     /\ LoopTop(config')
                     /\ prev' = IF key \in ToggleKeys
                                THEN [key |-> key, before |-> config]
                                ELSE NoPrev
                     /\ fzf_stdout' = None
                     /\ output' = None
                     /\ UNCHANGED <<key_pressed, selection_text, exitCode>>
                     /\ UNCHANGED effects
                ELSE LET p == parse_selection(sel, is_content)
                     IN  /\ key_pressed' = key
                         /\ selection_text' = sel
                         /\ prev' = NoPrev
                         /\ UNCHANGED <<config, fzf_stdout, output, launches,
                                        source_proc, fzf_proc, read_ends>>
                         /\ IF ~Truthy(p.filepath)
                            THEN /\ Exit(1)
                                 /\ UNCHANGED effects
                            ELSE open_file(p.filepath, p.line_num,
                                           YoinkAction(key, config.editor))
    /\ UNCHANGED <<variant, absent_tools, missing, cleanup, is_content,
                   interrupted, uncaught>>

\* seeker's main from run_fzf's return to the end.
SeekerHandleResult ==
    /\ variant = "seeker" /\ pc = "returned"
    /\ UNCHANGED <<config, launches, prev>>
    /\ IF ~Truthy(output)
       THEN /\ printed' = Append(printed, <<"No selection made.">>)
            /\ Exit(0)
            /\ UNCHANGED <<key_pressed, selection_text, dispatches, handoff,
                           writes, launched, warnings>>
       ELSE LET lines == SplitLines(output)
            IN  IF Len(lines) < 2
                THEN /\ Exit(0)
                     /\ UNCHANGED <<key_pressed, selection_text>>
                     /\ UNCHANGED effects
                ELSE LET p == parse_selection(lines[2], is_content)
                     IN  /\ key_pressed' = lines[1]
                         /\ selection_text' = lines[2]
                         /\ IF ~Truthy(p.filepath)
                            THEN /\ Exit(1)
                                 /\ UNCHANGED effects
                            ELSE open_file(p.filepath, p.line_num,
                                           SeekerAction(lines[1], config.editor))
    /\ UNCHANGED <<variant, absent_tools, missing, cleanup, fzf_stdout,
                   output, is_content, interrupted, uncaught, source_proc,
                   fzf_proc, read_ends>>

\* The editor or file manager open_file waits for has ended; so does main.
EditorExits ==
    /\ pc = "editor"
    /\ Exit(0)
    /\ UNCHANGED <<variant, absent_tools, config, missing, handoff, cleanup,
                   fzf_stdout, output, is_content, key_pressed,
                   selection_text, dispatches, printed, launched, warnings,
                   launches, writes, prev, interrupted, uncaught, source_proc,
                   fzf_proc, read_ends>>

\* An operator interrupt at the dashboard, the query prompt or a running
\* editor: KeyboardInterrupt reaches the module's handler, sys.exit(0).
Interrupt ==
    /\ pc \in {"dashboard", "prompt", "editor"}
    /\ interrupted' = pc
    /\ MainGuard
    /\ UNCHANGED <<variant, absent_tools, config, missing, handoff, cleanup,
                   fzf_stdout, output, is_content, key_pressed,
                   selection_text, dispatches, printed, launched, warnings,
                   launches, writes, prev, uncaught, source_proc, fzf_proc, read_ends>>

Next ==
    \/ \E installed \in SUBSET Binaries, removable \in BOOLEAN :
          Startup(installed, removable)
    \/ \E mode \in {"filename", "content"}, case \in BOOLEAN, hidden \in BOOLEAN,
          editor \in DashboardEditors, query \in Queries :
          DashboardSubmit(mode, case, hidden, editor, query)
    \/ DashboardQuit
    \/ \E q \in Queries : PromptAnswer(q)
    \/ \E raw \in RawOutputs : SelectorExits(raw)
    \/ SourceBlocks
    \/ SourceResumes
    \/ SourceEnds
    \/ SourceReaped
    \/ SelectorInterrupted
    \/ SelectorLaunchFails
    \/ YoinkHandleResult
    \/ SeekerHandleResult
    \/ EditorExits
    \/ Interrupt

Spec == Init /\ [][Next]_vars

\* A run up to the first return of run_fzf.  What run_fzf does with the
\* pipeline does not depend on the turns of the loop before it, so its
\* progress is followed on the first search of a run, with every
\* configuration the dashboard can submit.
SearchNext ==
    \/ \E installed \in SUBSET Binaries, removable \in BOOLEAN :
          Startup(installed, removable)
    \/ \E mode \in {"filename", "content"}, case \in BOOLEAN, hidden \in BOOLEAN,
          editor \in DashboardEditors, query \in Queries :
          DashboardSubmit(mode, case, hidden, editor, query)
    \/ DashboardQuit
    \/ \E raw \in RawOutputs : SelectorExits(raw)
    \/ SourceBlocks
    \/ SourceResumes
    \/ SourceEnds
    \/ SourceReaped
    \/ SelectorInterrupted
    \/ SelectorLaunchFails

\* The source process is scheduled and ends once nothing holds it up, and a
\* wait() on an ended child returns.
FairSpec ==
    Init /\ [][SearchNext]_vars /\ WF_vars(SourceEnds) /\ WF_vars(SourceReaped)

(* ------------------------------- claims ------------------------------- *)

\* The selector wrote a key line and a selected line.
HasSelectionLine ==
    /\ fzf_stdout # None
    /\ Len(SplitLines(fzf_stdout)) = 2

\* The key line and the selected line the selector wrote.
ReportedKey == SplitLines(fzf_stdout)[1]
SelectedLine == SplitLines(fzf_stdout)[2]

\* The selector wrote an empty key line (plain Enter) and a selected line
\* that is not empty and names a path in the configuration's mode.
PlainEnterOnUsableSelection ==
    /\ HasSelectionLine
    /\ ReportedKey = <<>>
    /\ SelectedLine # <<>>
    /\ Truthy(parse_selection(SelectedLine, config.mode # "filename").filepath)

\* C1: in both front ends a run whose selector output is an empty first line
\* and a non-empty selection line ends with exactly one dispatch, made with
\* the configuration's default action (config.editor), and a print dispatch
\* prints path or path:line.  Stated for the selections that name a path.
C1_PlainEnterDispatchesDefault ==
    (pc = "exited" /\ PlainEnterOnUsableSelection)
        => /\ Len(dispatches) = 1
           /\ dispatches[1].editor = config.editor
           /\ config.editor = "print"
                 => printed = <<PathLine(dispatches[1].filepath,
                                         dispatches[1].line_number)>>

\* The action keys of each front end, with the action the spec gives each.
ActionKeyLines(v) ==
    IF v = "yoink"
    THEN {<<"ctrl-v">>, <<"ctrl-x">>, <<"ctrl-o">>, <<"ctrl-t">>}
    ELSE {<<"ctrl-v">>, <<"ctrl-x">>, <<"ctrl-o">>}

ClaimedAction(key) ==
    IF key = <<"ctrl-v">> THEN "vim"
    ELSE IF key = <<"ctrl-x">> THEN "vscode"
    ELSE IF key = <<"ctrl-o">> THEN "folder"
    ELSE "sublime"

\* The selector result at hand has been routed by main.
Routed == pc \in {"editor", "exited"}

\* C2: when the selector reported an action key (ctrl-v, ctrl-x, ctrl-o, in
\* yoink also ctrl-t) with a non-empty selection, the only dispatch made is
\* that key's action (vim, vscode, folder, sublime), whatever config.editor
\* is; it is made whenever the selection names a path; and the default
\* action has no effect: nothing is printed, the handoff file is not written.
C2_ActionKeyOverridesDefault ==
    (Routed /\ HasSelectionLine /\ ReportedKey \in ActionKeyLines(variant)
            /\ SelectedLine # <<>>)
        => /\ Len(dispatches) <= 1
           /\ \A i \in DOMAIN dispatches :
                 dispatches[i].editor = ClaimedAction(ReportedKey)
           /\ Truthy(parse_selection(SelectedLine, config.mode # "filename").filepath)
                 => Len(dispatches) = 1
           /\ printed = <<>>
           /\ writes = 0

C2_Witness ==
    /\ Routed /\ HasSelectionLine
    /\ ReportedKey = <<"ctrl-x">>
    /\ Len(dispatches) = 1
    /\ dispatches[1].editor = "vscode"
    /\ config.editor \in {"cd", "print"}

\* A step of yoink's main that routes a selector result whose key line is k.
ToggleStep(k) ==
    /\ variant = "yoink"
    /\ pc = "returned"
    /\ Truthy(output)
    /\ SplitLines(output)[1] = k

\* No dispatch and no exit in this step.
NoDispatchStep ==
    /\ UNCHANGED <<dispatches, printed, handoff, writes, launched, exitCode>>
    /\ pc' # "exited"

\* C3: in the looping variant a toggle key changes its own field only:
\* ctrl-s flips case_sensitive, ctrl-h flips hidden_files, ctrl-f sets mode
\* to filename, ctrl-g sets mode to content and empties initial_query; every
\* other field keeps its value, and the loop goes on (to the selector, or to
\* the query prompt after ctrl-g) without a dispatch.
C3_ToggleChangesOwnField ==
    [][ /\ ToggleStep(<<"ctrl-s">>) =>
              /\ config' = [config EXCEPT !.case_sensitive = ~config.case_sensitive]
              /\ pc' = "run_fzf" /\ NoDispatchStep
        /\ ToggleStep(<<"ctrl-h">>) =>
              /\ config' = [config EXCEPT !.hidden_files = ~config.hidden_files]
              /\ pc' = "run_fzf" /\ NoDispatchStep
        /\ ToggleStep(<<"ctrl-f">>) =>
              /\ config'.mode = "filename"
              /\ config'.initial_query = config.initial_query
              /\ config'.case_sensitive = config.case_sensitive
              /\ config'.hidden_files = config.hidden_files
              /\ config'.editor = config.editor
              /\ pc' = "run_fzf" /\ NoDispatchStep
        /\ ToggleStep(<<"ctrl-g">>) =>
              /\ config'.mode = "content"
              /\ config'.initial_query = <<>>
              /\ config'.case_sensitive = config.case_sensitive
              /\ config'.hidden_files = config.hidden_files
              /\ config'.editor = config.editor
              /\ pc' = "prompt" /\ NoDispatchStep
      ]_vars

\* ctrl-f was pressed in content mode with a query set, and has acted.
C3_Witness ==
    /\ pc = "run_fzf"
    /\ prev.key = <<"ctrl-f">>
    /\ prev.before.mode = "content"
    /\ Truthy(prev.before.initial_query)
    /\ config.mode = "filename"

\* C4: in the looping variant a selector output that holds a toggle key line
\* and no selection line (such as "ctrl-s\n") is a toggle: the field changes,
\* run_fzf is called again (after the query prompt for ctrl-g), nothing is
\* dispatched and the process does not exit.
C4_KeyOnlyOutputToggles ==
    [][ \A k \in ToggleKeys :
          (variant = "yoink" /\ pc = "returned" /\ fzf_stdout = k \o <<NL>>)
              => /\ k = <<"ctrl-s">> => config'.case_sensitive # config.case_sensitive
                 /\ k = <<"ctrl-h">> => config'.hidden_files # config.hidden_files
                 /\ k = <<"ctrl-f">> => config'.mode = "filename"
                 /\ k = <<"ctrl-g">> => config'.mode = "content"
                 /\ IF k = <<"ctrl-g">> THEN pc' = "prompt" /\ launches' = launches
                    ELSE pc' = "run_fzf" /\ launches' = launches + 1
                 /\ NoDispatchStep
                 /\ dispatches' = <<>>
      ]_vars

\* "ctrl-s\n" was the first output, and the selector runs a second time with
\* the case flag flipped.
C4_Witness ==
    /\ variant = "yoink"
    /\ pc = "run_fzf"
    /\ launches = 2
    /\ prev.key = <<"ctrl-s">>
    /\ config.case_sensitive

\* C5: in the looping variant two consecutive ctrl-s results, and two
\* consecutive ctrl-h results, leave the whole configuration as it was before
\* the first of them.
C5_ToggleTwiceRestores ==
    [][ \A k \in {<<"ctrl-s">>, <<"ctrl-h">>} :
          (ToggleStep(k) /\ prev.key = k) => config' = prev.before
      ]_vars

\* The run's first two selector results were ctrl-h, and both were handled.
C5_Witness ==
    /\ variant = "yoink"
    /\ pc = "run_fzf"
    /\ launches = 3
    /\ prev.key = <<"ctrl-h">>
    /\ prev.before.hidden_files
    /\ ~config.hidden_files

\* C6: in the looping variant ctrl-g leaves initial_query empty, also when
\* the mode was content with a query set, and the next thing the loop does
\* is to prompt for a query: no selector runs before the prompt is answered.
C6_SwitchToContentClearsQuery ==
    [][ ToggleStep(<<"ctrl-g">>)
            => /\ config'.initial_query = <<>>
               /\ config'.mode = "content"
               /\ pc' = "prompt"
               /\ launches' = launches
      ]_vars

\* ctrl-g was pressed in content mode with a query set, and has acted.
C6_Witness ==
    /\ pc = "prompt"
    /\ prev.key = <<"ctrl-g">>
    /\ prev.before.mode = "content"
    /\ Truthy(prev.before.initial_query)
    /\ config.initial_query = <<>>

\* A run of the looping variant that passed the dependency check and ended
\* in cancellation or in a dispatch other than change-directory.
EndedWithoutCd ==
    /\ variant = "yoink"
    /\ pc = "exited"
    /\ missing = <<>>
    /\ exitCode = 0
    /\ \A i \in DOMAIN dispatches : dispatches[i].editor # "cd"

CdDispatched ==
    /\ variant = "yoink"
    /\ pc = "exited"
    /\ Len(dispatches) = 1
    /\ dispatches[1].editor = "cd"

\* C8 as claimed: a change-directory dispatch on path P leaves the handoff
\* file holding exactly dirname(abspath(P)), whatever it held before, and
\* the file is written once, in that step only.
C8_HandoffHoldsDirectory ==
    /\ CdDispatched
          => /\ handoff = DirName(AbsPath(dispatches[1].filepath))
             /\ writes = 1
    /\ pc # "exited" => writes = 0

\* C8 as amended: the same, for a dispatch whose write raised no error; an
\* error is reported and leaves the file as it was or empty.  With the
\* working directory /w: /a/a gives /a, a/a gives /w/a, a gives /w.
C8_HandoffHoldsDirectoryIfWritten ==
    /\ CdDispatched
          => /\ writes <= 1
             /\ warnings = <<>>
                   => /\ writes = 1
                      /\ handoff = DirName(AbsPath(dispatches[1].filepath))
                      /\ dispatches[1].filepath = <<"/", "a", "/", "a">>
                            => handoff = <<"/", "a">>
                      /\ dispatches[1].filepath = <<"a", "/", "a">>
                            => handoff = <<"/", "w", "/", "a">>
                      /\ dispatches[1].filepath = <<"a">>
                            => handoff = <<"/", "w">>
             /\ warnings # <<>> => handoff \in {Absent, Stale, <<>>}
    /\ pc # "exited" => writes = 0

\* The file kept stale content through the cleanup, and the dispatch on
\* /a/a replaced it by /a.
C8_Witness ==
    /\ CdDispatched
    /\ cleanup = "failed"
    /\ dispatches[1].filepath = <<"/", "a", "/", "a">>
    /\ handoff = <<"/", "a">>
    /\ writes = 1

\* C9: an operator interrupt at a blocking point ends the process with
\* status 0: at the dashboard, the query prompt and a running editor at
\* once; while the pipeline runs, run_fzf returns None, False, main makes
\* no dispatch, and the process ends with status 0.
C9_InterruptExitsZero ==
    /\ interrupted \in {"dashboard", "prompt", "editor"}
          => (pc = "exited" /\ exitCode = 0 /\ ~uncaught)
    /\ interrupted = "run_fzf"
          => /\ output = None /\ ~is_content
             /\ dispatches = <<>>
             /\ pc \in {"returned", "exited"}
             /\ pc = "exited" => (exitCode = 0 /\ ~uncaught)

\* The pipeline of the second search was interrupted and the run has ended.
C9_Witness ==
    /\ interrupted = "run_fzf"
    /\ pc = "exited"
    /\ launches = 2

\* main parsed a selection line into an empty path.
UnusableSelection ==
    /\ Truthy(selection_text)
    /\ ~Truthy(parse_selection(selection_text, is_content).filepath)

\* C10: once the dependency check has passed, the exit status is 1 exactly
\* when a selection line was returned and parsed to an empty path, and 0 in
\* every other termination.
C10_ExitStatus ==
    (pc = "exited" /\ missing = <<>>)
        => /\ exitCode \in {0, 1}
           /\ exitCode = 1 <=> UnusableSelection

\* main has split a result of at least two lines and routed it.
ParsedResult ==
    /\ Routed
    /\ Truthy(output)
    /\ Len(SplitLines(output)) >= 2

\* C11: of the text run_fzf returned, the first line is the pressed key and
\* the second the selection.  In content mode a selection of at least two
\* ':'-separated parts gives path = first part and line number = second
\* part ("a:1:a" gives "a" and "1"); in filename mode, or with fewer than two
\* parts, the path is the whole trimmed selection and there is no line
\* number, also when a filename-mode selection holds ':' ("a:1:a" stays
\* whole).  The dispatch is made on that path and line; an empty path is not
\* dispatched.
C11_ResultParsing ==
    ParsedResult =>
        LET lines == SplitLines(output)
            parts == Split(lines[2], ":")
            split == config.mode = "content" /\ Len(parts) >= 2
            path  == IF split THEN parts[1] ELSE Strip(lines[2])
            line  == IF split THEN parts[2] ELSE None
        IN  /\ key_pressed = lines[1]
            /\ selection_text = lines[2]
            /\ IF path = <<>> THEN dispatches = <<>>
               ELSE /\ Len(dispatches) = 1
                    /\ dispatches[1].filepath = path
                    /\ dispatches[1].line_number = line
            /\ (lines[2] = <<"a", ":", "1", ":", "a">> /\ config.mode = "content")
                  => /\ dispatches[1].filepath = <<"a">>
                     /\ dispatches[1].line_number = <<"1">>
            /\ (lines[2] = <<"a", ":", "1", ":", "a">> /\ config.mode = "filename")
                  => /\ dispatches[1].filepath = <<"a", ":", "1", ":", "a">>
                     /\ dispatches[1].line_number = None

\* ctrl-v on the content match "a:1:a" was dispatched on path a, line 1.
C11_Witness ==
    /\ ParsedResult
    /\ config.mode = "content"
    /\ key_pressed = <<"ctrl-v">>
    /\ selection_text = <<"a", ":", "1", ":", "a">>
    /\ Len(dispatches) = 1
    /\ dispatches[1].filepath = <<"a">>
    /\ dispatches[1].line_number = <<"1">>

Digits == {"0", "1", "2", "3", "4", "5", "6", "7", "8", "9"}

\* The decimal numeral of a positive integer.
IsPositiveInteger(s) ==
    /\ s # None
    /\ s # <<>>
    /\ \A i \in 1..Len(s) : s[i] \in Digits
    /\ \E i \in 1..Len(s) : s[i] # "0"

\* C12: in content mode a selection whose second ':'-separated field is not
\* a positive integer is dispatched with its path and without a line
\* number: every line value open_file receives is absent or a positive
\* integer, editors get no "+abc" argument and nothing like "path:abc" is
\* printed.
C12_MalformedLineDropped ==
    \A i \in DOMAIN dispatches :
        LET d == dispatches[i]
        IN  /\ ~Truthy(d.line_number) \/ IsPositiveInteger(d.line_number)
            /\ (launched.cmd = "$EDITOR or vim" /\ Len(launched.args) = 2)
                  => IsPositiveInteger(Tail(launched.args[1]))
            /\ \A j \in DOMAIN printed :
                  \/ printed[j] = d.filepath
                  \/ \E n \in 1..Len(printed[j]) :
                        /\ SubSeq(printed[j], 1, n) = d.filepath \o <<":">>
                        /\ IsPositiveInteger(SubSeq(printed[j], n + 1, Len(printed[j])))

\* The words rg is meant to get for a configuration: its flags, and in
\* content mode the query (or "." for none) as the last word.
IntendedWords(cfg) ==
    IF cfg.mode = "filename"
    THEN << <<"rg">>, <<"--files">> >>
            \o (IF cfg.hidden_files THEN << <<"--hidden">> >> ELSE <<>>)
            \o << <<"--glob">>, <<"!.git/*">> >>
    ELSE << <<"rg">>, <<"--line-number">>, <<"--no-heading">>, <<"--color=always">> >>
            \o (IF cfg.hidden_files THEN << <<"--hidden">> >> ELSE <<>>)
            \o << IF cfg.case_sensitive THEN <<"--case-sensitive">>
                  ELSE <<"--smart-case">> >>
            \o << IF Truthy(cfg.initial_query) THEN cfg.initial_query ELSE <<".">> >>

\* C13: whenever a pipeline is launched, in either front end, the shell
\* reads the source command as rg with its flags and the whole query as one
\* last argument: no single quote is left unmatched and no character of the
\* query is taken as shell syntax.
C13_QueryIsOneShellArgument ==
    pc = "run_fzf"
        => LET r == ShellWords(SourceCmd(variant, config))
           IN  /\ ~r.unmatched
               /\ ~r.syntax
               /\ r.words = IntendedWords(config)

\* C14: whenever run_fzf has returned (after the selector's normal end,
\* after a cancelled selector, or after an operator interrupt) the selector
\* and the source have both ended and the source has been waited for, and no
\* selector output is in main's hands while either of them runs.
C14_PipelineEndedAtReturn ==
    /\ pc = "returned" => (source_proc = "reaped" /\ fzf_proc = "reaped")
    /\ output # None => (source_proc = "reaped" /\ fzf_proc = "reaped")

\* The selector of the latest pipeline could not be started.
SelectorNeverStarted == launches > 0 /\ fzf_proc = "none"

\* C15: a binary missing at the moment it is launched (the selector after
\* the dependency check passed, the editor or file manager at dispatch) is
\* caught at the launch, reported as a warning, and the run ends with exit
\* status 0; no launch failure leaves main as an uncaught error.
C15_LaunchFailureIsWarning ==
    /\ ~uncaught
    /\ (pc = "exited" /\ SelectorNeverStarted)
          => (warnings # <<>> /\ exitCode = 0)
    /\ (pc = "exited" /\ \E i \in DOMAIN warnings : warnings[i] = "command not found")
          => exitCode = 0

\* The set of the tools check_dependencies reported.
Reported == {missing[i] : i \in DOMAIN missing}

\* C16: when a required tool (fzf, rg, bat or in its place batcat) is absent
\* at startup, the process reports every absent tool, each once, and ends
\* with status 1 before any interactive step: no dashboard, no query prompt,
\* no pipeline, no dispatch, no change of the configuration or of the
\* handoff file.  With every tool present nothing is reported.
C16_MissingToolEndsRunAtStartup ==
    /\ absent_tools # {}
          => /\ pc = "exited"
             /\ exitCode = 1
             /\ Reported = absent_tools
             /\ Len(missing) = Cardinality(absent_tools)
             /\ launches = 0
             /\ source_proc = "none" /\ fzf_proc = "none"
             /\ dispatches = <<>> /\ launched = NoCmd /\ printed = <<>>
             /\ writes = 0 /\ cleanup = "none"
             /\ config = SearchConfig(variant)
             /\ interrupted = "no"
    /\ absent_tools = {} => missing = <<>>
    /\ pc \notin {"start", "exited"} => absent_tools = {}

\* fzf and bat were absent (batcat too), rg present: both are reported.
C16_Witness ==
    /\ pc = "exited"
    /\ absent_tools = {"fzf", "bat"}
    /\ missing = <<"fzf", "bat">>
    /\ exitCode = 1

\* The key line of the result main is about to route.
RoutedKey ==
    IF Truthy(output) /\ SplitLines(output) # <<>> THEN SplitLines(output)[1]
    ELSE None

\* The four outcomes of routing one selector result, as steps of main (the
\* steps that leave "returned"; the source process may step beside it).
CancelStep ==
    /\ pc' = "exited" /\ exitCode' = 0
    /\ UNCHANGED <<config, dispatches, launches, handoff, writes, launched>>

ToggleRuleStep ==
    /\ variant = "yoink" /\ RoutedKey \in ToggleKeys
    /\ pc' \in {"run_fzf", "prompt"}
    /\ UNCHANGED <<dispatches, exitCode>>

ReloopStep ==
    /\ RoutedKey \notin ToggleKeys
    /\ pc' = "run_fzf" /\ launches' = launches + 1
    /\ UNCHANGED <<config, dispatches, exitCode>>

DispatchStep ==
    /\ Len(dispatches') = Len(dispatches) + 1
    /\ pc' \in {"editor", "exited"}
    /\ UNCHANGED <<config, launches>>

\* A fifth outcome: the selection parsed to an empty path and the run ends
\* with status 1, nothing dispatched.
UnusableStep ==
    /\ pc' = "exited" /\ exitCode' = 1
    /\ UnusableSelection'
    /\ UNCHANGED <<config, launches>>
    /\ UNCHANGED effects

Count(b) == IF b THEN 1 ELSE 0

\* The things a dispatch action does: a line printed, the handoff file
\* written (or the failed write reported), an external command started.
DispatchEffects ==
    Len(printed)
    + Count(writes > 0 \/ \E i \in DOMAIN warnings :
                             warnings[i] = "error writing handoff file")
    + Count(launched # NoCmd)

\* What C17 says of a run besides the routing of one result: at most one
\* dispatch; a run that dispatched did exactly one dispatch action, with
\* every default action; after the dispatch no pipeline is launched and the
\* configuration stays.
OneDispatchPerRun ==
    /\ [](Len(dispatches) <= 1)
    /\ []((Len(dispatches) = 1 /\ pc \in {"editor", "exited"})
              => /\ DispatchEffects = 1
                 /\ dispatches[1].editor
                       \in {"cd", "print", "vim", "vscode", "sublime", "folder"})
    /\ [](dispatches = <<>> => (writes = 0 /\ launched = NoCmd))
    /\ [][dispatches # <<>> => UNCHANGED <<config, launches, dispatches>>]_vars

\* C17 as claimed: every selector result, whatever its key and with or
\* without a selection line, is routed by exactly one of cancel, toggle,
\* re-loop and dispatch; and a run dispatches at most once, exactly once
\* where it reaches the dispatch, and does nothing to the search afterwards.
C17_OneRulePerResult ==
    /\ [][(pc = "returned" /\ pc' # "returned")
             => Count(CancelStep) + Count(ToggleRuleStep) + Count(ReloopStep)
                  + Count(DispatchStep) = 1]_vars
    /\ OneDispatchPerRun

\* C17 as amended: the same with a fifth rule beside the four: a result
\* whose selection line parses to an empty path ends the run with status 1
\* and without a dispatch.
C17_OneRulePerResultOrUnusable ==
    /\ [][(pc = "returned" /\ pc' # "returned")
             => Count(CancelStep) + Count(ToggleRuleStep) + Count(ReloopStep)
                  + Count(DispatchStep) + Count(UnusableStep) = 1]_vars
    /\ OneDispatchPerRun

\* After two turns of the loop a key outside the expect set, with a
\* selection, was dispatched to the default action, once.
C17_Witness ==
    /\ variant = "yoink"
    /\ pc = "exited"
    /\ launches = 3
    /\ key_pressed = <<"f1">>
    /\ Len(dispatches) = 1
    /\ dispatches[1].editor = "cd"
    /\ DispatchEffects = 1

\* yoink's main is about to route a result whose key is no toggle key and
\* that has no selection line, or an empty one.
NonToggleKeyWithoutSelection ==
    /\ variant = "yoink"
    /\ pc = "returned"
    /\ Truthy(output)
    /\ SplitLines(output) # <<>>
    /\ SplitLines(output)[1] \notin ToggleKeys
    /\ Len(SplitLines(output)) = 1 \/ SplitLines(output)[2] = <<>>

\* C18: in the looping variant a result with a key that is no toggle key (an
\* action key, an unrecognized key, plain Enter) and without a selection
\* makes the loop run the selector again with the configuration as it was:
\* no field changes, nothing is dispatched, the process does not exit.
C18_NoSelectionReloops ==
    [][ NonToggleKeyWithoutSelection
            => /\ config' = config
               /\ pc' = "run_fzf"
               /\ launches' = launches + 1
               /\ NoDispatchStep
               /\ dispatches' = <<>>
      ]_vars

\* The second pipeline of a run runs with the configuration the run started
\* with and no toggle key came before it: the first result was re-looped.
C18_Witness ==
    /\ variant = "yoink"
    /\ pc = "run_fzf"
    /\ launches = 2
    /\ prev = NoPrev
    /\ config = SearchConfig("yoink")

\* How a run of seeker that passed the dependency check may end: cancelled
\* (status 0, nothing dispatched), or with the one result that held a key
\* and a selection routed to the dispatch (made, or refused with status 1
\* for an empty path).
SeekerEndedCancelled ==
    /\ exitCode = 0 /\ ~uncaught
    /\ dispatches = <<>>

SeekerEndedDispatching ==
    /\ key_pressed # None /\ ~uncaught
    /\ \/ Len(dispatches) = 1 /\ exitCode = 0
       \/ dispatches = <<>> /\ exitCode = 1 /\ UnusableSelection

\* C19: seeker is single-shot.  A run launches at most one pipeline, and
\* only from the submitted dashboard (never after the dashboard was quit);
\* the configuration the dashboard produced is not changed afterwards; the
\* selector's expect set holds the action keys and no toggle key; and every
\* run ends cancelled or dispatching after that one search.
C19_SeekerSingleShot ==
    /\ [](variant = "seeker" => launches <= 1)
    /\ [][(variant = "seeker" /\ launches' # launches) => pc = "dashboard"]_vars
    /\ [][(variant = "seeker" /\ pc # "dashboard") => config' = config]_vars
    /\ [](/\ ExpectKeys("seeker") = ActionKeyLines("seeker")
          /\ ExpectKeys("seeker") \cap ToggleKeys = {})
    /\ []((variant = "seeker" /\ pc = "exited" /\ missing = <<>>)
              => (SeekerEndedCancelled \/ SeekerEndedDispatching))

\* C20: in the looping variant no pipeline is launched, and none runs, in
\* content mode with an empty initial_query.  Whenever the loop is entered
\* in content mode without a query (after ctrl-g, whatever toggles came
\* before) the operator is asked first; the answer becomes the query, an
\* empty answer becomes ".", and only then run_fzf is called.
C20_ContentSearchHasQuery ==
    /\ []((variant = "yoink" /\ pc \in {"run_fzf", "reaping", "returned"}
             /\ config.mode = "content")
              => Truthy(config.initial_query))
    /\ [][(variant = "yoink" /\ launches' > launches /\ config'.mode = "content")
              => Truthy(config'.initial_query)]_vars
    /\ []((variant = "yoink" /\ config.mode = "content"
             /\ ~Truthy(config.initial_query))
              => (pc = "prompt" \/ (pc = "exited" /\ interrupted = "prompt")))
    /\ [][(variant = "yoink" /\ pc = "prompt" /\ pc' = "run_fzf")
              => /\ config'.initial_query \in (Queries \ {<<>>}) \cup {<<".">>}
                 /\ config' = [config EXCEPT !.initial_query = config'.initial_query]
                 /\ launches' = launches + 1]_vars

\* After a toggle and ctrl-g the prompt was answered with nothing, and the
\* pipeline runs in content mode with the query ".".
C20_Witness ==
    /\ variant = "yoink"
    /\ pc = "run_fzf"
    /\ launches = 3
    /\ config.mode = "content"
    /\ config.initial_query = <<".">>

\* C21: run_fzf cannot hang on the pipeline.  Once the selector has ended,
\* whether or not it read all the source wrote, run_fzf returns in the end:
\* it closes its copy of the pipe's read end before it waits for the source,
\* so no read end is left open while it waits, and a source blocked in a
\* write to the full pipe is released, ends and is reaped.
C21_RunFzfReturns ==
    /\ [](pc = "reaping" => read_ends = {})
    /\ (pc = "reaping") ~> (pc = "returned")

\* The selector has ended and the parent has closed its read end while the
\* source is blocked in a write to the full pipe.
C21_Witness ==
    /\ pc = "reaping"
    /\ fzf_proc = "reaped"
    /\ source_proc = "blocked"
    /\ read_ends = {}

\* C22: in the looping variant config.editor is "cd" in every reachable
\* state, whatever toggles and further searches came before; a dispatch on
\* plain Enter or on a key that is no action key is therefore the
\* change-directory action, and the print action is never dispatched there.
C22_DefaultActionIsCd ==
    variant = "yoink"
        => /\ config.editor = "cd"
           /\ \A i \in DOMAIN dispatches :
                 /\ dispatches[i].editor # "print"
                 /\ key_pressed \notin ActionKeyLines("yoink")
                       => dispatches[i].editor = "cd"
           /\ printed = <<>>

\* After ctrl-h and ctrl-g, with a query typed, plain Enter on a match was
\* dispatched as change-directory.
C22_Witness ==
    /\ variant = "yoink"
    /\ pc = "exited"
    /\ launches = 3
    /\ config.mode = "content"
    /\ config.hidden_files
    /\ key_pressed = <<>>
    /\ Len(dispatches) = 1
    /\ dispatches[1].editor = "cd"
    /\ writes = 1

====
